---- MODULE Spec2Model ----
(***************************************************************************)
(* Row reduction (Gaussian elimination with pivot tracking) and the        *)
(* operations derived from it -- determinant, rank, inverse -- of the      *)
(* matrix crate, over exact rational scalars.                              *)
(*                                                                         *)
(* A matrix is a sequence of column vectors, addressed matrix[col][row]    *)
(* as in the source.  Row and column indices are 0-based as in the source; *)
(* At(m, col, row) reads the entry.  A scalar is a normalised fraction     *)
(* <<numerator, denominator>> with denominator > 0 and gcd 1.              *)
(***************************************************************************)
EXTENDS Integers, Sequences, FiniteSets, TLC

VARIABLES
    self,            \* the receiver matrix the caller holds
    pc,              \* "idle" | "reducing" | "returned"
    call,            \* the public operation in flight or last returned
    matrix,          \* reduced_row_echelon_form: the working clone
    row_index,       \* reduced_row_echelon_form: the loop counter
    details,         \* RowEchelonDetails: tracked_pivots, operations
    ret,             \* the value the operation returned
    arg              \* the arguments of the operation besides the receiver

vars == <<self, pc, call, matrix, row_index, details, ret, arg>>

----------------------------------------------------------------------------
(* Bounds of the model *)

\* single-entry edits write a value of -MaxVal..MaxVal; the exhaustively
\* enumerated matrices have entries in -1..MaxVal
MaxVal == 2
\* every matrix of at most MaxCells cells over -1..MaxVal is an input
MaxCells == 4

(* Program constants *)

\* determinant asserts cols() <= 4
MaxDetDim == 4

----------------------------------------------------------------------------
(* Scalars: exact fractions *)

RECURSIVE GCD(_, _)
GCD(a, b) == IF b = 0 THEN a ELSE GCD(b, a % b)

Abs(n) == IF n < 0 THEN -n ELSE n

Frac(n, d) ==
    IF n = 0 THEN <<0, 1>>
    ELSE LET g == GCD(Abs(n), Abs(d))
             s == IF d < 0 THEN -1 ELSE 1
         IN  <<(s * n) \div g, (s * d) \div g>>

\* K::default()
Zero == <<0, 1>>
One == <<1, 1>>
Int2K(n) == <<n, 1>>

\* sums and products cancel common factors before multiplying
KAdd(x, y) ==
    LET g == GCD(x[2], y[2]) IN
    Frac(x[1] * (y[2] \div g) + y[1] * (x[2] \div g), (x[2] \div g) * y[2])
KMul(x, y) ==
    IF x[1] = 0 \/ y[1] = 0 THEN <<0, 1>>
    ELSE LET g1 == GCD(Abs(x[1]), y[2])
             g2 == GCD(Abs(y[1]), x[2])
         IN  <<(x[1] \div g1) * (y[1] \div g2), (x[2] \div g2) * (y[2] \div g1)>>
KSub(x, y) == KAdd(x, <<-y[1], y[2]>>)
\* x / y for y # 0
KDiv(x, y) == KMul(x, IF y[1] < 0 THEN <<-y[2], -y[1]>> ELSE <<y[2], y[1]>>)
KNeg(x) == <<-x[1], x[2]>>
KGt(x, y) == x[1] * y[2] > y[1] * x[2]
KAbs(x) == <<Abs(x[1]), x[2]>>

----------------------------------------------------------------------------
(* Container layer *)

\* number of column vectors
\* assert_valid: TRUE when the assertion holds
assert_valid(m, vector) == m = <<>> \/ Len(m[1]) = Len(vector)

\* push: [kind, value], kind "panic" when assert_valid fails
push(m, vector) ==
    IF assert_valid(m, vector)
    THEN [kind |-> "matrix", value |-> Append(m, vector)]
    ELSE [kind |-> "panic", value |-> <<>>]

\* the loop of Matrix::new over vectors i.. (1-based), from the matrix built so far
RECURSIVE PushAll(_, _, _)
PushAll(m, vectors, i) ==
    IF i > Len(vectors) THEN [kind |-> "matrix", value |-> m]
    ELSE IF push(m, vectors[i]).kind = "panic" THEN push(m, vectors[i])
    ELSE PushAll(push(m, vectors[i]).value, vectors, i + 1)

\* Matrix::new: Self::default(), then push of every vector
Matrix_new(vectors) == PushAll(<<>>, vectors, 1)

\* FromIterator: the vectors are collected as they come
from_iter(vectors) == [kind |-> "matrix", value |-> vectors]

\* From<T>, which the matrix! macro calls
from(vectors) == from_iter(vectors)

cols(m) == Len(m)

\* length of the column vectors; zero for the empty matrix
rows(m) == IF Len(m) = 0 THEN 0 ELSE Len(m[1])

is_empty(m) == Len(m) = 0

is_square(m) == rows(m) = cols(m)

At(m, col, row) == m[col + 1][row + 1]

identity(n) == [c \in 1..n |-> [r \in 1..n |-> IF r = c THEN One ELSE Zero]]

\* the rows of the matrix, top to bottom, each a sequence over the columns
as_rows(m) == [r \in 1..rows(m) |-> [c \in 1..cols(m) |-> m[c][r]]]

----------------------------------------------------------------------------
(* Row-operation log: the primitives, each returning the changed matrix
   and the record of what it did *)

OpSwap(a, b) == [kind |-> "Swap", a |-> a, b |-> b, k |-> Zero]
OpMultipication(row, k) == [kind |-> "Multipication", a |-> row, b |-> row, k |-> k]
OpDivision(row, k) == [kind |-> "Division", a |-> row, b |-> row, k |-> k]
OpRowAddition(t, s, k) == [kind |-> "RowAddition", a |-> t, b |-> s, k |-> k]

\* swap without the temporary: row_a is overwritten before it is copied
swap_without_temp(m, row_a, row_b) ==
    [matrix |-> [c \in 1..cols(m) |-> [r \in 1..rows(m) |->
                    IF r = row_a + 1 THEN m[c][row_b + 1] ELSE m[c][r]]],
     op |-> OpSwap(row_a, row_b)]

swap(m, row_a, row_b) ==
    [matrix |-> [c \in 1..cols(m) |-> [r \in 1..rows(m) |->
                    IF r = row_b + 1 THEN m[c][row_a + 1]
                    ELSE IF r = row_a + 1 THEN m[c][row_b + 1]
                    ELSE m[c][r]]],
     op |-> OpSwap(row_a, row_b)]

\* multiply scaling every row
multiply_every_row(m, row, scalar) ==
    [matrix |-> [c \in 1..cols(m) |-> [r \in 1..rows(m) |-> KMul(m[c][r], scalar)]],
     op |-> OpMultipication(row, scalar)]

multiply(m, row, scalar) ==
    [matrix |-> [c \in 1..cols(m) |-> [r \in 1..rows(m) |->
                    IF r = row + 1 THEN KMul(m[c][r], scalar) ELSE m[c][r]]],
     op |-> OpMultipication(row, scalar)]

divide(m, row, scalar) ==
    [matrix |-> [c \in 1..cols(m) |-> [r \in 1..rows(m) |->
                    IF r = row + 1 THEN KDiv(m[c][r], scalar) ELSE m[c][r]]],
     op |-> OpDivision(row, scalar)]

\* row_add adding the row itself, whatever the scalar
row_add_ignoring_scalar(m, row_to_modify, row_to_add, scalar) ==
    [matrix |-> [c \in 1..cols(m) |-> [r \in 1..rows(m) |->
                    IF r = row_to_modify + 1
                    THEN KAdd(m[c][r], m[c][row_to_add + 1])
                    ELSE m[c][r]]],
     op |-> OpRowAddition(row_to_modify, row_to_add, scalar)]

row_add(m, row_to_modify, row_to_add, scalar) ==
    [matrix |-> [c \in 1..cols(m) |-> [r \in 1..rows(m) |->
                    IF r = row_to_modify + 1
                    THEN KAdd(m[c][r], KMul(m[c][row_to_add + 1], scalar))
                    ELSE m[c][r]]],
     op |-> OpRowAddition(row_to_modify, row_to_add, scalar)]

\* apply with the Swap arm leaving the matrix as it is
apply_ignoring_swap(m, op) ==
    CASE op.kind = "Swap" -> m
      [] op.kind = "Multipication" -> multiply(m, op.a, op.k).matrix
      [] op.kind = "Division" -> divide(m, op.a, op.k).matrix
      [] op.kind = "RowAddition" -> row_add(m, op.a, op.b, op.k).matrix

apply(m, op) ==
    CASE op.kind = "Swap" -> swap(m, op.a, op.b).matrix
      [] op.kind = "Multipication" -> multiply(m, op.a, op.k).matrix
      [] op.kind = "Division" -> divide(m, op.a, op.k).matrix
      [] op.kind = "RowAddition" -> row_add(m, op.a, op.b, op.k).matrix

RECURSIVE apply_multiple(_, _)
apply_multiple(m, ops) ==
    IF ops = <<>> THEN m ELSE apply_multiple(apply(m, Head(ops)), Tail(ops))

----------------------------------------------------------------------------
(* Row-reduction engine *)

None == <<>>

\* the inner loop of next_pivot: rows row..rows()-1 of column col
RECURSIVE ScanColumn(_, _, _, _)
ScanColumn(m, col, row, saved_pivot) ==
    IF row >= rows(m) THEN saved_pivot
    ELSE LET current == At(m, col, row) IN
         IF current = Zero THEN ScanColumn(m, col, row + 1, saved_pivot)
         ELSE IF saved_pivot # None
              THEN IF KGt(current, At(m, saved_pivot[1], saved_pivot[2]))
                   THEN ScanColumn(m, col, row + 1, <<col, row>>)
                   ELSE ScanColumn(m, col, row + 1, saved_pivot)
              ELSE ScanColumn(m, col, row + 1, <<col, row>>)

\* the outer loop of next_pivot: columns col..cols()-1
RECURSIVE ScanColumns(_, _, _)
ScanColumns(m, col, min_row_index) ==
    IF col >= cols(m) THEN None
    ELSE LET saved_pivot == ScanColumn(m, col, min_row_index, None) IN
         IF saved_pivot # None THEN saved_pivot
         ELSE ScanColumns(m, col + 1, min_row_index)

\* the inner loop of next_pivot without its test for zero
RECURSIVE ScanColumnKeepingZero(_, _, _, _)
ScanColumnKeepingZero(m, col, row, saved_pivot) ==
    IF row >= rows(m) THEN saved_pivot
    ELSE IF saved_pivot # None /\ ~KGt(At(m, col, row), At(m, saved_pivot[1], saved_pivot[2]))
         THEN ScanColumnKeepingZero(m, col, row + 1, saved_pivot)
         ELSE ScanColumnKeepingZero(m, col, row + 1, <<col, row>>)

\* next_pivot that does not skip a column without a non-zero candidate
next_pivot_keeping_zero(m, min_row_index) ==
    IF cols(m) = 0 THEN None ELSE ScanColumnKeepingZero(m, 0, min_row_index, None)

\* the inner loop of next_pivot replacing the saved pivot by an equal candidate
RECURSIVE ScanColumnLastOfEqual(_, _, _, _)
ScanColumnLastOfEqual(m, col, row, saved_pivot) ==
    IF row >= rows(m) THEN saved_pivot
    ELSE LET current == At(m, col, row) IN
         IF current = Zero THEN ScanColumnLastOfEqual(m, col, row + 1, saved_pivot)
         ELSE IF saved_pivot # None
                 /\ KGt(At(m, saved_pivot[1], saved_pivot[2]), current)
              THEN ScanColumnLastOfEqual(m, col, row + 1, saved_pivot)
              ELSE ScanColumnLastOfEqual(m, col, row + 1, <<col, row>>)

RECURSIVE ScanColumnsLastOfEqual(_, _, _)
ScanColumnsLastOfEqual(m, col, min_row_index) ==
    IF col >= cols(m) THEN None
    ELSE LET saved_pivot == ScanColumnLastOfEqual(m, col, min_row_index, None) IN
         IF saved_pivot # None THEN saved_pivot
         ELSE ScanColumnsLastOfEqual(m, col + 1, min_row_index)

\* next_pivot breaking ties toward the highest row index
next_pivot_last_of_equal(m, min_row_index) == ScanColumnsLastOfEqual(m, 0, min_row_index)

\* next_pivot scanning every column from row 0, whatever min_row_index
next_pivot_from_row_0(m, min_row_index) == ScanColumns(m, 0, 0)

\* Some(<<col, row>>) or None
next_pivot(m, min_row_index) == ScanColumns(m, 0, min_row_index)

\* the loop of nullify_rows_below_pivot over rows row..rows()-1;
\* acc is [matrix, operations]
RECURSIVE NullifyBelow(_, _, _, _)
NullifyBelow(acc, pivot_col, pivot_row, row) ==
    IF row >= rows(acc.matrix) THEN acc
    ELSE LET factor == At(acc.matrix, pivot_col, row) IN
         IF factor = Zero THEN NullifyBelow(acc, pivot_col, pivot_row, row + 1)
         ELSE LET r == row_add(acc.matrix, row, pivot_row, KNeg(factor)) IN
              NullifyBelow([matrix |-> r.matrix,
                            operations |-> Append(acc.operations, r.op)],
                           pivot_col, pivot_row, row + 1)

\* the loop of nullify_rows_below_pivot run from the last row upwards
RECURSIVE NullifyBelowBottomUp(_, _, _, _)
NullifyBelowBottomUp(acc, pivot_col, pivot_row, row) ==
    IF row <= pivot_row THEN acc
    ELSE LET factor == At(acc.matrix, pivot_col, row) IN
         IF factor = Zero THEN NullifyBelowBottomUp(acc, pivot_col, pivot_row, row - 1)
         ELSE LET r == row_add(acc.matrix, row, pivot_row, KNeg(factor)) IN
              NullifyBelowBottomUp([matrix |-> r.matrix,
                                    operations |-> Append(acc.operations, r.op)],
                                   pivot_col, pivot_row, row - 1)

nullify_rows_below_pivot_bottom_up(m, pivot_col, pivot_row) ==
    NullifyBelowBottomUp([matrix |-> m, operations |-> <<>>],
                         pivot_col, pivot_row, rows(m) - 1)

\* nullify_rows_below_pivot leaving the last row alone
nullify_rows_below_pivot_but_last(m, pivot_col, pivot_row) ==
    LET r == NullifyBelow([matrix |-> [c \in 1..cols(m) |-> SubSeq(m[c], 1, rows(m) - 1)],
                           operations |-> <<>>], pivot_col, pivot_row, pivot_row + 1)
    IN  [matrix |-> [c \in 1..cols(m) |-> Append(r.matrix[c], m[c][rows(m)])],
         operations |-> r.operations]

nullify_rows_below_pivot(m, pivot_col, pivot_row) ==
    NullifyBelow([matrix |-> m, operations |-> <<>>], pivot_col, pivot_row, pivot_row + 1)

\* scale_pivot_row multiplying by the pivot instead of dividing
scale_pivot_row_multiplying(m, pivot_col, pivot_row) ==
    LET pivot == At(m, pivot_col, pivot_row) IN
    [matrix |-> multiply(m, pivot_row, pivot).matrix,
     op |-> multiply(m, pivot_row, pivot).op, panic |-> pivot = Zero]

\* assert!(pivot != K::default()) guards the division
scale_pivot_row(m, pivot_col, pivot_row) ==
    LET pivot == At(m, pivot_col, pivot_row) IN
    IF pivot = Zero
    THEN [matrix |-> m, op |-> OpDivision(pivot_row, pivot), panic |-> TRUE]
    ELSE [matrix |-> divide(m, pivot_row, pivot).matrix,
          op |-> divide(m, pivot_row, pivot).op, panic |-> FALSE]

NoDetails == [tracked_pivots |-> <<>>, operations |-> <<>>]

\* max_iterations stopping one row early
max_iterations_but_last_row(m) ==
    IF rows(m) - 1 < cols(m) THEN (IF rows(m) = 0 THEN 0 ELSE rows(m) - 1) ELSE cols(m)

max_iterations(m) == IF rows(m) < cols(m) THEN rows(m) ELSE cols(m)

\* the loop body with the swap done only when details is Some
LoopBodySwappingOnlyWhenTracking(st, track) ==
    LET m == st.matrix
        np == next_pivot(m, st.row_index)
    IN
    IF st.row_index >= max_iterations(m) \/ np = None
    THEN [st EXCEPT !.status = "done"]
    ELSE
      LET m1 == IF np[2] # st.row_index /\ track
                THEN swap(m, np[2], st.row_index).matrix ELSE m
          ops1 == IF np[2] # st.row_index
                  THEN Append(st.details.operations, OpSwap(np[2], st.row_index))
                  ELSE st.details.operations
          scaled == scale_pivot_row(m1, np[1], st.row_index)
          below == IF st.row_index < rows(m1) - 1
                   THEN nullify_rows_below_pivot(scaled.matrix, np[1], st.row_index)
                   ELSE [matrix |-> scaled.matrix, operations |-> <<>>]
      IN
      IF scaled.panic
      THEN [st EXCEPT !.status = "panic"]
      ELSE [matrix |-> below.matrix,
            row_index |-> st.row_index + 1,
            details |-> IF track
                        THEN [tracked_pivots |->
                                  Append(st.details.tracked_pivots,
                                         At(m1, np[1], st.row_index)),
                              operations |-> Append(ops1, scaled.op) \o below.operations]
                        ELSE NoDetails,
            status |-> "loop"]

\* One iteration of the loop of reduced_row_echelon_form, on the loop state
\* st = [matrix, row_index, details, status]; status is "loop" while the
\* loop runs, "done" once it has exited and "panic" after a failed assertion.
\* track is TRUE when details is Some.
LoopBody(st, track) ==
    LET m == st.matrix
        np == next_pivot(m, st.row_index)
    IN
    IF st.row_index >= max_iterations(m) \/ np = None
    THEN [st EXCEPT !.status = "done"]
    ELSE
      LET pivot_col == np[1]
          swapped == IF np[2] # st.row_index
                     THEN swap(m, np[2], st.row_index)
                     ELSE [matrix |-> m, op |-> OpSwap(np[2], np[2])]
          ops1 == IF np[2] # st.row_index
                  THEN Append(st.details.operations, swapped.op)
                  ELSE st.details.operations
          pivot_row == st.row_index
          m1 == swapped.matrix
          tracked == Append(st.details.tracked_pivots, At(m1, pivot_col, pivot_row))
          scaled == scale_pivot_row(m1, pivot_col, pivot_row)
          ops2 == Append(ops1, scaled.op)
          below == IF pivot_row < rows(m1) - 1
                   THEN nullify_rows_below_pivot(scaled.matrix, pivot_col, pivot_row)
                   ELSE [matrix |-> scaled.matrix, operations |-> <<>>]
      IN
      IF scaled.panic
      THEN [st EXCEPT !.status = "panic"]
      ELSE [matrix |-> below.matrix,
            row_index |-> st.row_index + 1,
            details |-> IF track
                        THEN [tracked_pivots |-> tracked,
                              operations |-> ops2 \o below.operations]
                        ELSE NoDetails,
            status |-> "loop"]

RECURSIVE RunLoop(_, _)
RunLoop(st, track) ==
    IF st.status # "loop" THEN st ELSE RunLoop(LoopBody(st, track), track)

\* the state after the clone, before the first iteration; the empty matrix
\* returns at once
EnterLoop(m) ==
    [matrix |-> m, row_index |-> 0, details |-> NoDetails,
     status |-> IF is_empty(m) THEN "done" ELSE "loop"]

\* [matrix, row_index, details, status] at the return of the function
reduced_row_echelon_form(m, track) == RunLoop(EnterLoop(m), track)

row_echelon(m) == reduced_row_echelon_form(m, FALSE).matrix

row_echelon_with_details(m) == reduced_row_echelon_form(m, TRUE)

----------------------------------------------------------------------------
(* The row_echelon of functions/row_echelon.rs: first non-zero pivot, no log *)

swap_rows(m, a, b) == swap(m, a, b).matrix

\* the first non-zero entry, columns first, in rows min_row_index..rows()-1
functions_next_pivot(m, min_row_index) ==
    LET hits == {p \in (0..(cols(m) - 1)) \X (min_row_index..(rows(m) - 1)) :
                    At(m, p[1], p[2]) # Zero}
    IN  IF hits = {} THEN None
        ELSE CHOOSE p \in hits : \A q \in hits :
                 p[1] < q[1] \/ (p[1] = q[1] /\ p[2] <= q[2])

\* divides the pivot row from the pivot column on
functions_scale_pivot_row(m, pivot_col, pivot_row) ==
    LET pivot == At(m, pivot_col, pivot_row) IN
    [c \in 1..cols(m) |-> [r \in 1..rows(m) |->
        IF r = pivot_row + 1 /\ c >= pivot_col + 1 THEN KDiv(m[c][r], pivot) ELSE m[c][r]]]

\* the loop of nullify_rows_below_pivot over rows row..rows()-1
RECURSIVE FunctionsNullifyBelow(_, _, _, _)
FunctionsNullifyBelow(m, pivot_col, pivot_row, row) ==
    IF row >= rows(m) THEN m
    ELSE LET factor == At(m, pivot_col, row) IN
         IF factor = Zero THEN FunctionsNullifyBelow(m, pivot_col, pivot_row, row + 1)
         ELSE FunctionsNullifyBelow(
                [c \in 1..cols(m) |-> [r \in 1..rows(m) |->
                    IF r = row + 1 /\ c >= pivot_col + 1
                    THEN KSub(m[c][r], KMul(m[c][pivot_row + 1], factor))
                    ELSE m[c][r]]],
                pivot_col, pivot_row, row + 1)

functions_nullify_rows_below_pivot(m, pivot_col, pivot_row) ==
    FunctionsNullifyBelow(m, pivot_col, pivot_row, pivot_row + 1)

\* the for loop over row_index..max_row-1
RECURSIVE FunctionsLoop(_, _)
FunctionsLoop(m, row_idx) ==
    IF row_idx >= max_iterations(m) THEN m
    ELSE LET np == functions_next_pivot(m, row_idx) IN
         IF np = None THEN FunctionsLoop(m, row_idx + 1)
         ELSE LET m1 == IF np[2] # row_idx THEN swap_rows(m, np[2], row_idx) ELSE m
                  m2 == functions_scale_pivot_row(m1, np[1], row_idx)
              IN  FunctionsLoop(functions_nullify_rows_below_pivot(m2, np[1], row_idx),
                                row_idx + 1)

functions_row_echelon(m) == IF is_empty(m) THEN m ELSE FunctionsLoop(m, 0)

----------------------------------------------------------------------------
(* Derived operations *)

Panic == [kind |-> "panic", value |-> Zero]
Scalar(k) == [kind |-> "scalar", value |-> k]

IsZeroRow(row) == \A c \in 1..Len(row) : row[c] = Zero

\* position(|value| *value != K::default()): Some(<<index>>) or None
FirstNonZero(row) ==
    IF IsZeroRow(row) THEN None
    ELSE <<(CHOOSE c \in 1..Len(row) :
               /\ row[c] # Zero
               /\ \A d \in 1..(c - 1) : row[d] = Zero) - 1>>

\* row_iter.all(all zero) on the rows from position i (1-based) on
RestAllZero(rs, i) == \A r \in i..Len(rs) : IsZeroRow(rs[r])

\* the while loop comparing with < instead of <=
RECURSIVE RefLoopAllowingEqual(_, _, _)
RefLoopAllowingEqual(rs, i, saved_non_zero_index) ==
    IF i > Len(rs) THEN TRUE
    ELSE LET first_non_zero_index == FirstNonZero(rs[i]) IN
         IF first_non_zero_index = None THEN RestAllZero(rs, i + 1)
         ELSE IF first_non_zero_index[1] < saved_non_zero_index THEN FALSE
         ELSE RefLoopAllowingEqual(rs, i + 1, first_non_zero_index[1])

\* the while loop of is_row_echelon_form, at row i (1-based) of rs
RECURSIVE RefLoop(_, _, _)
RefLoop(rs, i, saved_non_zero_index) ==
    IF i > Len(rs) THEN TRUE
    ELSE LET first_non_zero_index == FirstNonZero(rs[i]) IN
         IF first_non_zero_index = None THEN RestAllZero(rs, i + 1)
         ELSE IF first_non_zero_index[1] <= saved_non_zero_index THEN FALSE
         ELSE RefLoop(rs, i + 1, first_non_zero_index[1])

\* is_row_echelon_form starting its while loop at the first row
is_row_echelon_form_from_first_row(m) ==
    IF rows(m) = 0 THEN TRUE
    ELSE LET rs == as_rows(m)
             first == FirstNonZero(rs[1])
         IN  IF first = None THEN RestAllZero(rs, 2)
             ELSE RefLoop(rs, 1, first[1])

is_row_echelon_form(m) ==
    IF rows(m) = 0 THEN TRUE
    ELSE LET rs == as_rows(m)
             first == FirstNonZero(rs[1])
         IN  IF first = None THEN RestAllZero(rs, 2)
             ELSE RefLoop(rs, 2, first[1])

RECURSIVE Product(_)
Product(ks) == IF Len(ks) = 1 THEN ks[1] ELSE KMul(ks[1], Product(Tail(ks)))

\* swap_count counting every operation of the log
swap_count_all_operations(operations) == Len(operations)

swap_count(operations) ==
    Cardinality({i \in 1..Len(operations) : operations[i].kind = "Swap"})

\* determinant_for_dimension_4_and_more without the zero-bottom-row test
determinant_for_dimension_4_and_more_no_zero_row_test(m) ==
    LET red == row_echelon_with_details(m)
        result == Product(red.details.tracked_pivots)
    IN  IF red.details.tracked_pivots = <<>> THEN Scalar(Zero)
        ELSE IF swap_count(red.details.operations) % 2 # 0 THEN Scalar(KNeg(result))
        ELSE Scalar(result)

determinant_for_dimension_4_and_more(m) ==
    IF ~is_square(m) \/ cols(m) < 4 THEN Panic
    ELSE
      LET red == row_echelon_with_details(m)
          ref_rows == as_rows(red.matrix)
          ref_has_non_zero_row ==
              Len(ref_rows) > 0 /\ IsZeroRow(ref_rows[Len(ref_rows)])
          result == Product(red.details.tracked_pivots)
      IN
      IF red.status = "panic" THEN Panic
      ELSE IF ref_has_non_zero_row \/ red.details.tracked_pivots = <<>>
           THEN Scalar(Zero)
      ELSE IF swap_count(red.details.operations) % 2 # 0
           THEN Scalar(KNeg(result))
      ELSE Scalar(result)

\* the match of determinant on cols()
determinant_match(m) ==
    CASE cols(m) = 0 -> Scalar(Zero)
      [] cols(m) = 1 -> Scalar(At(m, 0, 0))
      [] cols(m) = 2 ->
           Scalar(KSub(KMul(At(m, 0, 0), At(m, 1, 1)),
                       KMul(At(m, 1, 0), At(m, 0, 1))))
      [] cols(m) = 3 ->
           LET a == At(m, 0, 0)  b == At(m, 1, 0)  c == At(m, 2, 0)
               d == At(m, 0, 1)  e == At(m, 1, 1)  f == At(m, 2, 1)
               g == At(m, 0, 2)  h == At(m, 1, 2)  i == At(m, 2, 2)
           IN  Scalar(KSub(
                 KAdd(KAdd(KMul(KMul(a, e), i), KMul(KMul(b, f), g)),
                      KMul(KMul(c, d), h)),
                 KAdd(KAdd(KMul(KMul(g, e), c), KMul(KMul(h, f), a)),
                      KMul(KMul(i, d), b))))
      [] cols(m) = 4 -> determinant_for_dimension_4_and_more(m)
      [] OTHER -> Panic

\* determinant without the assertion cols() <= 4, sending every larger size
\* to row reduction
determinant_any_size(m) ==
    IF ~is_square(m) THEN Panic
    ELSE IF cols(m) > 4 THEN determinant_for_dimension_4_and_more(m)
    ELSE determinant_match(m)

determinant(m) ==
    IF ~is_square(m) \/ cols(m) > MaxDetDim THEN Panic
    ELSE determinant_match(m)

\* position(p) over the rows rs from index i (1-based): the 0-based index of
\* the first all-zero row, or None
RECURSIVE FirstZeroRow(_, _)
FirstZeroRow(rs, i) ==
    IF i > Len(rs) THEN None
    ELSE IF IsZeroRow(rs[i]) THEN <<i - 1>>
    ELSE FirstZeroRow(rs, i + 1)

\* the rank of row_echelon.rs falling back to cols() instead of rows()
row_echelon_rank_defaulting_to_cols(m) ==
    LET position == FirstZeroRow(as_rows(row_echelon(m)), 1) IN
    IF position = None THEN cols(m) ELSE position[1]

\* the rank of row_echelon.rs: the index of the first all-zero row of
\* row_echelon(), or rows() when there is none
row_echelon_rank(m) ==
    LET position == FirstZeroRow(as_rows(row_echelon(m)), 1) IN
    IF position = None THEN rows(m) ELSE position[1]

\* rank counting the logged operations instead of the tracked pivots
rank_counting_operations(m) == Len(row_echelon_with_details(m).details.operations)

\* rank.rs: the number of tracked pivots
rank(m) == Len(row_echelon_with_details(m).details.tracked_pivots)

\* the loop of nullify_rows_above_pivot over rows row..pivot_row-1
RECURSIVE NullifyAbove(_, _, _, _)
NullifyAbove(acc, pivot_col, pivot_row, row) ==
    IF row >= pivot_row THEN acc
    ELSE LET factor == At(acc.matrix, pivot_col, row) IN
         IF factor = Zero THEN NullifyAbove(acc, pivot_col, pivot_row, row + 1)
         ELSE LET r == row_add(acc.matrix, row, pivot_row, KNeg(factor)) IN
              NullifyAbove([matrix |-> r.matrix,
                            operations |-> Append(acc.operations, r.op)],
                           pivot_col, pivot_row, row + 1)

\* nullify_rows_above_pivot starting at row 1
nullify_rows_above_pivot_from_row_1(m, pivot_col, pivot_row) ==
    NullifyAbove([matrix |-> m, operations |-> <<>>], pivot_col, pivot_row, 1)

nullify_rows_above_pivot(m, pivot_col, pivot_row) ==
    NullifyAbove([matrix |-> m, operations |-> <<>>], pivot_col, pivot_row, 0)

\* the loop of back_substitution over i..cols()-1; acc is [matrix, operations]
RECURSIVE BackLoop(_, _)
BackLoop(acc, i) ==
    IF i >= cols(acc.matrix) THEN acc
    ELSE LET r == nullify_rows_above_pivot(acc.matrix, i, i) IN
         BackLoop([matrix |-> r.matrix,
                   operations |-> acc.operations \o r.operations], i + 1)

\* the loop of back_substitution run from column i down to column 1
RECURSIVE BackLoopRightToLeft(_, _)
BackLoopRightToLeft(acc, i) ==
    IF i < 1 THEN acc
    ELSE LET r == nullify_rows_above_pivot(acc.matrix, i, i) IN
         BackLoopRightToLeft([matrix |-> r.matrix,
                              operations |-> acc.operations \o r.operations], i - 1)

\* back_substitution processing the columns right to left
back_substitution_right_to_left(m) ==
    IF ~is_row_echelon_form(m) THEN [operations |-> <<>>, panic |-> TRUE]
    ELSE [operations |->
              BackLoopRightToLeft([matrix |-> m, operations |-> <<>>],
                                  cols(m) - 1).operations,
          panic |-> FALSE]

\* back_substitution starting its loop at column 2
back_substitution_from_column_2(m) ==
    IF ~is_row_echelon_form(m) THEN [operations |-> <<>>, panic |-> TRUE]
    ELSE [operations |-> BackLoop([matrix |-> m, operations |-> <<>>], 2).operations,
          panic |-> FALSE]

\* [operations, panic]; the receiver is cloned, only the operations return
back_substitution(m) ==
    IF ~is_row_echelon_form(m) THEN [operations |-> <<>>, panic |-> TRUE]
    ELSE [operations |-> BackLoop([matrix |-> m, operations |-> <<>>], 1).operations,
          panic |-> FALSE]

SingularMatrix == [kind |-> "Err", value |-> <<>>]
Ok(m) == [kind |-> "Ok", value |-> m]

\* inverse rejecting only a matrix without any pivot
inverse_rejecting_only_rank_0(m) ==
    LET red == row_echelon_with_details(m)
        ops == red.details.operations
                 \o BackLoop([matrix |-> red.matrix, operations |-> <<>>], 1).operations
    IN  IF ~is_square(m) THEN [kind |-> "panic", value |-> <<>>]
        ELSE IF Len(red.details.tracked_pivots) = 0 /\ rows(m) # 0 THEN SingularMatrix
        ELSE Ok(apply_multiple(identity(cols(m)), ops))

\* inverse testing the number of pivots before asserting is_square
inverse_asserting_square_after_pivot_test(m) ==
    LET red == row_echelon_with_details(m)
        back == back_substitution(red.matrix)
        ops == red.details.operations \o back.operations
    IN
    IF Len(red.details.tracked_pivots) # rows(red.matrix) THEN SingularMatrix
    ELSE IF ~is_square(m) \/ back.panic THEN [kind |-> "panic", value |-> <<>>]
    ELSE Ok(apply_multiple(identity(cols(m)), ops))

inverse(m) ==
    IF ~is_square(m) THEN [kind |-> "panic", value |-> <<>>]
    ELSE
      LET red == row_echelon_with_details(m)
          back == back_substitution(red.matrix)
          ops == red.details.operations \o back.operations
      IN
      IF red.status = "panic" THEN [kind |-> "panic", value |-> <<>>]
      ELSE IF Len(red.details.tracked_pivots) # rows(red.matrix) THEN SingularMatrix
      ELSE IF back.panic THEN [kind |-> "panic", value |-> <<>>]
      ELSE Ok(apply_multiple(identity(cols(m)), ops))

\* back_substitution running its loop on the receiver instead of on a clone
BackSubstitutionWithoutClone(m) ==
    LET done == BackLoop([matrix |-> m, operations |-> <<>>], 1) IN
    [self |-> done.matrix, matrix |-> done.matrix, operations |-> done.operations]

\* the variables of back_substitution when it returns: the receiver self,
\* its clone matrix that the loop works on, and operations
BackSubstitutionFrame(m) ==
    LET done == BackLoop([matrix |-> m, operations |-> <<>>], 1) IN
    [self |-> m, matrix |-> done.matrix, operations |-> done.operations]

\* the variables of inverse when it returns: the receiver self, which is only
\* read, and matrix, the reduced copy that back_substitution is called on
InverseFrame(m) ==
    IF ~is_square(m) THEN [self |-> m, matrix |-> m]
    ELSE LET red == row_echelon_with_details(m) IN
         IF Len(red.details.tracked_pivots) # rows(red.matrix)
            \/ ~is_row_echelon_form(red.matrix)
         THEN [self |-> m, matrix |-> red.matrix]
         ELSE [self |-> m, matrix |-> BackSubstitutionFrame(red.matrix).self]

----------------------------------------------------------------------------
(* Matrix product (container layer) *)

VecScale(v, k) == [i \in 1..Len(v) |-> KMul(v[i], k)]
VecAdd(v, w) == [i \in 1..Len(v) |-> KAdd(v[i], w[i])]

RECURSIVE LinComb(_, _, _, _)
LinComb(vectors, coefs, i, vector) ==
    IF i > Len(vectors) THEN vector
    ELSE LinComb(vectors, coefs, i + 1, VecAdd(vector, VecScale(vectors[i], coefs[i])))

\* [panic, value]
linear_combination(vectors, coefs) ==
    IF vectors = <<>> \/ Len(vectors) # Len(coefs)
    THEN [panic |-> TRUE, value |-> <<>>]
    ELSE [panic |-> FALSE,
          value |-> LinComb(vectors, coefs, 2, VecScale(vectors[1], coefs[1]))]

\* Vector *= Matrix; [panic, value].  debug_assertions is the build's setting:
\* debug_assert_eq! is compiled in only when it is TRUE.  The copy loop writes
\* self_scalars[i] for every index of the combination, out of range when the
\* combination is the longer one.
matrix_mul_assign_inner(self_scalars, m, debug_assertions) ==
    LET combination == linear_combination(m, self_scalars) IN
    IF combination.panic THEN combination
    ELSE IF debug_assertions /\ Len(combination.value) # Len(self_scalars)
         THEN [panic |-> TRUE, value |-> <<>>]
    ELSE IF Len(combination.value) > Len(self_scalars)
         THEN [panic |-> TRUE, value |-> <<>>]
    ELSE [panic |-> FALSE,
          value |-> [i \in 1..Len(self_scalars) |->
                        IF i <= Len(combination.value)
                        THEN combination.value[i] ELSE self_scalars[i]]]

\* Vector * &Matrix and &Vector * &Matrix; [panic, value]
matrix_mul_inner(scalars, m, debug_assertions) ==
    LET combination == linear_combination(m, scalars) IN
    IF combination.panic THEN combination
    ELSE IF debug_assertions /\ Len(combination.value) # Len(scalars)
         THEN [panic |-> TRUE, value |-> <<>>]
    ELSE combination

\* [panic, value]: column i of the product is &a[i] * b, the columns then go
\* through Matrix::new
mul_matrix_matrix(a, b, debug_assertions) ==
    LET new == [i \in 1..Len(a) |-> matrix_mul_inner(a[i], b, debug_assertions)] IN
    IF \E i \in 1..Len(a) : new[i].panic THEN [panic |-> TRUE, value |-> <<>>]
    ELSE [panic |-> Matrix_new([i \in 1..Len(a) |-> new[i].value]).kind = "panic",
          value |-> [i \in 1..Len(a) |-> new[i].value]]

----------------------------------------------------------------------------
(* Inputs: the matrices a caller can hold *)

Vals == (0 - MaxVal)..MaxVal

FromInts(cs) == [c \in 1..Len(cs) |-> [r \in 1..Len(cs[c]) |-> Int2K(cs[c][r])]]
FromHalves(cs) == [c \in 1..Len(cs) |-> [r \in 1..Len(cs[c]) |-> Frac(cs[c][r], 2)]]

\* the entries of the exhaustively enumerated matrices
DenseVals == {-1} \cup (0..MaxVal)

\* every matrix of r rows and c columns over DenseVals
Dense(r, c) == [1..c -> [1..r -> {Int2K(v) : v \in DenseVals}]]

DenseShapes == {p \in (1..MaxCells) \X (1..MaxCells) : p[1] * p[2] <= MaxCells}

DenseInputs == UNION {Dense(p[1], p[2]) : p \in DenseShapes}

\* the matrices of the unit tests, column by column as matrix! builds them
TestMatrices ==
    { FromInts(<< <<1, 2>>, <<3, 4>> >>),
      FromInts(<< <<1, 2>>, <<2, 4>> >>),
      FromHalves(<< <<16, 10, -4, 8, 56>>, <<8, 5, 40, 8, -8>>, <<16, 10, 2, 8, 34>> >>),
      FromInts(<< <<1, 2>>, <<3, 4>>, <<5, 6>> >>),
      FromInts(<< <<0, 1, 2>>, <<0, 3, 6>> >>),
      FromInts(<< <<1, -1>>, <<-1, 1>> >>),
      FromInts(<< <<2, 0, 0>>, <<0, 2, 0>>, <<0, 0, 2>> >>),
      FromInts(<< <<8, 5, -2>>, <<4, 7, 20>>, <<7, 6, 1>> >>),
      FromHalves(<< <<16, 10, -4, 8>>, <<8, 5, 40, 8>>, <<16, 10, 2, 8>>, <<56, -8, 34, 2>> >>),
      FromInts(<< <<6, 1, 1>>, <<4, -2, 5>>, <<2, 8, 7>> >>),
      FromInts(<< <<1, 2, 3, 4>>, <<1, 2, 3, 4>>, <<5, 6, 7, 8>>, <<9, 0, 1, 2>> >>),
      FromInts(<< <<0, 1, 0, 0>>, <<1, 0, 0, 0>>, <<0, 0, 1, 0>>, <<0, 0, 0, 1>> >>),
      FromInts(<< <<2, 5, 9, 1>>, <<0, 3, 8, 2>>, <<0, 0, 4, 3>>, <<0, 0, 0, 5>> >>),
      FromInts(<< <<1, 2, 0, 0>>, <<2, 4, 0, 0>>, <<-1, 2, 1, 1>> >>),
      FromInts(<< <<8, 5, -2>>, <<4, 7, 20>>, <<7, 6, 1>>, <<21, 18, 7>> >>),
      FromInts(<< <<42>> >>),
      FromInts(<< <<1, 1, 1>>, <<2, 2, 2>>, <<3, 3, 3>> >>),
      FromInts(<< <<1, 0, 5, 9>>, <<0, 1, 2, 3>> >>),
      FromInts(<< <<1, 2, 3>>, <<0, 0, 0>>, <<7, 8, 9>> >>),
      FromInts(<< <<4, 7>>, <<2, 6>> >>) }

\* shapes up to one past the largest size determinant accepts
Dims == 1..(MaxDetDim + 1)

ZeroMatrix(r, c) == [i \in 1..c |-> [j \in 1..r |-> Zero]]
\* ones on the main diagonal (the identity when square)
EyeMatrix(r, c) == [i \in 1..c |-> [j \in 1..r |-> IF i = j THEN One ELSE Zero]]

Seeds ==
    TestMatrices \cup {ZeroMatrix(r, c) : r \in Dims, c \in Dims}
                 \cup {EyeMatrix(r, c) : r \in Dims, c \in Dims}

\* the seed itself and the seed with one entry overwritten by a value of Vals
Edits(m) ==
    {m} \cup {[m EXCEPT ![c][r] = Int2K(v)] :
                 c \in 1..cols(m), r \in 1..rows(m), v \in Vals}

SparseInputs == UNION {Edits(m) : m \in Seeds}

\* one or two columns of dimension zero: not is_empty, yet without rows
ZeroRowInputs == {[c \in 1..n |-> <<>>] : n \in 1..2}

\* the vectors handed to a constructor: at most MaxVectors vectors of dimension
\* 0..MaxDim; the constructors look at the dimensions only, so every entry is one
MaxDim == 2
MaxVectors == 3
CtorVector == {[i \in 1..n |-> One] : n \in 0..MaxDim}
CtorVectors == UNION {[1..n -> CtorVector] : n \in 0..MaxVectors}

\* the receivers of a product, of every shape
ProductInputs == {<<>>} \cup ZeroRowInputs \cup Seeds

\* the vectors a matrix is multiplied by: (1, 2, ..., n) and (-1, ..., -1)
ProductVectors ==
    {[i \in 1..n |-> Int2K(i)] : n \in 0..(MaxDetDim + 1)}
        \cup {[i \in 1..n |-> Int2K(-1)] : n \in 1..(MaxDetDim + 1)}

\* the left operands of Matrix * Matrix
ProductMatrices == {<<>>} \cup TestMatrices

\* the scalars handed to the row primitives; divide gets the non-zero ones
PrimitiveScalars == {Zero, Int2K(2), Frac(-1, 2)}

Inputs == {<<>>} \cup ZeroRowInputs \cup DenseInputs \cup SparseInputs

----------------------------------------------------------------------------
(* The state machine: a caller holding self calls one public operation *)

NoRet == [kind |-> "none", value |-> <<>>]

Init ==
    /\ self \in Inputs
    /\ pc = "idle"
    /\ call = "none"
    /\ matrix = <<>>
    /\ row_index = 0
    /\ details = NoDetails
    /\ ret = NoRet
    /\ arg = <<>>

\* row_echelon_with_details up to the loop: fresh details and the clone
CallRowEchelonWithDetails ==
    /\ pc = "idle"
    /\ call' = "row_echelon_with_details"
    /\ matrix' = EnterLoop(self).matrix
    /\ row_index' = 0
    /\ details' = NoDetails
    /\ pc' = IF EnterLoop(self).status = "done" THEN "returned" ELSE "reducing"
    /\ ret' = IF EnterLoop(self).status = "done"
              THEN [kind |-> "matrix", value |-> self] ELSE NoRet
    /\ UNCHANGED <<self, arg>>

LoopState == [matrix |-> matrix, row_index |-> row_index, details |-> details,
              status |-> "loop"]

\* one iteration working on the receiver itself, as if self had not been cloned
PivotStepInPlace ==
    /\ pc = "reducing"
    /\ LET st == LoopBody(LoopState, TRUE) IN
       /\ st.status = "loop"
       /\ matrix' = st.matrix
       /\ self' = st.matrix
       /\ row_index' = st.row_index
       /\ details' = st.details
    /\ UNCHANGED <<pc, call, ret, arg>>

\* one iteration of the for loop that fixes a pivot
PivotStep ==
    /\ pc = "reducing"
    /\ LET st == LoopBody(LoopState, TRUE) IN
       /\ st.status = "loop"
       /\ matrix' = st.matrix
       /\ row_index' = st.row_index
       /\ details' = st.details
    /\ UNCHANGED <<self, pc, call, ret, arg>>

\* the loop ends (the range is exhausted or next_pivot is None) and the
\* function returns the working matrix
ExitLoop ==
    /\ pc = "reducing"
    /\ LoopBody(LoopState, TRUE).status = "done"
    /\ pc' = "returned"
    /\ ret' = [kind |-> "matrix", value |-> matrix]
    /\ UNCHANGED <<self, call, matrix, row_index, details, arg>>

Return(name, value) ==
    /\ pc = "idle"
    /\ pc' = IF value.kind = "panic" THEN "panicked" ELSE "returned"
    /\ call' = name
    /\ ret' = value
    /\ UNCHANGED <<self, matrix, row_index, details, arg>>

\* an operation called with the arguments args
ReturnWith(name, args, value) ==
    /\ pc = "idle"
    /\ pc' = IF value.kind = "panic" THEN "panicked" ELSE "returned"
    /\ call' = name
    /\ arg' = args
    /\ ret' = value
    /\ UNCHANGED <<self, matrix, row_index, details>>

\* row_echelon: the reduction without details
CallRowEchelon == Return("row_echelon", [kind |-> "matrix", value |-> row_echelon(self)])

\* row_echelon of functions/row_echelon.rs
CallFunctionsRowEchelon ==
    Return("functions_row_echelon",
           [kind |-> "matrix", value |-> functions_row_echelon(self)])

CallDeterminant == Return("determinant", determinant(self))

CallRank == Return("rank", [kind |-> "usize", value |-> rank(self)])

\* rank as row_echelon.rs defines it
CallRowEchelonRank ==
    Return("row_echelon_rank", [kind |-> "usize", value |-> row_echelon_rank(self)])

\* inverse takes &mut self: the receiver afterwards is the one of its frame
CallInverse ==
    /\ pc = "idle"
    /\ pc' = IF inverse(self).kind = "panic" THEN "panicked" ELSE "returned"
    /\ call' = "inverse"
    /\ ret' = inverse(self)
    /\ self' = InverseFrame(self).self
    /\ UNCHANGED <<matrix, row_index, details, arg>>

\* back_substitution takes &mut self; called here on square receivers, as
\* inverse does
CallBackSubstitution ==
    /\ pc = "idle"
    /\ is_square(self)
    /\ call' = "back_substitution"
    /\ IF back_substitution(self).panic
       THEN /\ pc' = "panicked"
            /\ ret' = [kind |-> "panic", value |-> <<>>]
            /\ self' = self
       ELSE /\ pc' = "returned"
            /\ ret' = [kind |-> "operations",
                       value |-> back_substitution(self).operations]
            /\ self' = BackSubstitutionFrame(self).self
    /\ UNCHANGED <<matrix, row_index, details, arg>>

CallIsRowEchelonForm ==
    Return("is_row_echelon_form", [kind |-> "bool", value |-> is_row_echelon_form(self)])

\* Matrix::new(vectors), an associated function: it starts from Self::default()
CallNew ==
    /\ is_empty(self)
    /\ \E vectors \in CtorVectors : ReturnWith("new", vectors, Matrix_new(vectors))

\* Matrix::from(vectors), as matrix!(v1, v2, ...) expands to
CallFrom ==
    /\ is_empty(self)
    /\ \E vectors \in CtorVectors : ReturnWith("from", vectors, from(vectors))

VecResult(r) ==
    IF r.panic THEN [kind |-> "panic", value |-> <<>>]
    ELSE [kind |-> "vector", value |-> r.value]

\* vector * matrix with both operands owned: goes through Vector *= Matrix
CallVectorMulMatrix ==
    /\ self \in ProductInputs
    /\ \E vector \in ProductVectors : \E debug_assertions \in BOOLEAN :
          ReturnWith("vector_mul_matrix", <<vector, debug_assertions>>,
                     VecResult(matrix_mul_assign_inner(vector, self, debug_assertions)))

\* vector * &matrix and &vector * &matrix
CallVectorMulMatrixRef ==
    /\ self \in ProductInputs
    /\ \E vector \in ProductVectors : \E debug_assertions \in BOOLEAN :
          ReturnWith("vector_mul_matrix_ref", <<vector, debug_assertions>>,
                     VecResult(matrix_mul_inner(vector, self, debug_assertions)))

\* a * self for a matrix a
CallMulMatrixMatrix ==
    /\ self \in ProductInputs
    /\ \E a \in ProductMatrices : \E debug_assertions \in BOOLEAN :
          LET r == mul_matrix_matrix(a, self, debug_assertions) IN
          ReturnWith("mul_matrix_matrix", <<a, debug_assertions>>,
                     IF r.panic THEN [kind |-> "panic", value |-> <<>>]
                     ELSE [kind |-> "matrix", value |-> r.value])

\* 0-based row indices of the receiver
RowIndices == 0..(rows(self) - 1)

Applied(r) == [kind |-> "applied", value |-> r]

\* the row primitives, on the matrices of ProductInputs; ret holds the matrix
\* after the call and the record returned
CallSwap ==
    /\ self \in ProductInputs
    /\ \E row_a \in RowIndices : \E row_b \in RowIndices :
          ReturnWith("swap", <<row_a, row_b>>, Applied(swap(self, row_a, row_b)))

CallMultiply ==
    /\ self \in ProductInputs
    /\ \E row \in RowIndices : \E scalar \in PrimitiveScalars :
          ReturnWith("multiply", <<row, scalar>>, Applied(multiply(self, row, scalar)))

CallDivide ==
    /\ self \in ProductInputs
    /\ \E row \in RowIndices : \E scalar \in PrimitiveScalars \ {Zero} :
          ReturnWith("divide", <<row, scalar>>, Applied(divide(self, row, scalar)))

CallRowAdd ==
    /\ self \in ProductInputs
    /\ \E row_to_modify \in RowIndices : \E row_to_add \in RowIndices :
          \E scalar \in PrimitiveScalars :
            ReturnWith("row_add", <<row_to_modify, row_to_add, scalar>>,
                       Applied(row_add(self, row_to_modify, row_to_add, scalar)))

Next ==
    \/ CallRowEchelon
    \/ CallFunctionsRowEchelon
    \/ CallRowEchelonWithDetails
    \/ PivotStep
    \/ ExitLoop
    \/ CallDeterminant
    \/ CallRank
    \/ CallRowEchelonRank
    \/ CallInverse
    \/ CallBackSubstitution
    \/ CallIsRowEchelonForm
    \/ CallNew
    \/ CallFrom
    \/ CallVectorMulMatrix
    \/ CallVectorMulMatrixRef
    \/ CallMulMatrixMatrix
    \/ CallSwap
    \/ CallMultiply
    \/ CallDivide
    \/ CallRowAdd

Spec == Init /\ [][Next]_vars

----------------------------------------------------------------------------
(* Reference definitions the properties are stated with *)

\* m without column c and row r (1-based)
Minor(m, c, r) ==
    [i \in 1..(Len(m) - 1) |->
        LET col == m[IF i < c THEN i ELSE i + 1] IN
        [j \in 1..(Len(col) - 1) |-> col[IF j < r THEN j ELSE j + 1]]]

\* cofactor expansion along the first row, columns c..Len(m)
RECURSIVE CofactorSum(_, _)
CofactorSum(m, c) ==
    IF Len(m) = 1 THEN m[1][1]
    ELSE IF c > Len(m) THEN Zero
    ELSE LET term == KMul(m[c][1], CofactorSum(Minor(m, c, 1), 1))
         IN  KAdd(IF c % 2 = 1 THEN term ELSE KNeg(term), CofactorSum(m, c + 1))

\* the determinant of a square matrix of size >= 1 by cofactor expansion
CofactorDet(m) == CofactorSum(m, 1)

\* product of the tracked pivots, negated iff the log holds an odd number of Swaps
PivotRule(m) ==
    LET d == row_echelon_with_details(m).details
        swaps == Cardinality({i \in 1..Len(d.operations) : d.operations[i].kind = "Swap"})
        product == Product(d.tracked_pivots)
    IN  IF swaps % 2 = 1 THEN KNeg(product) ELSE product

\* the first non-zero entry of row r of the rows rs is at column PivotOf(rs, r)
NonZeroRows(rs) == {r \in 1..Len(rs) : ~IsZeroRow(rs[r])}
PivotOf(rs, r) == CHOOSE c \in 1..Len(rs[r]) :
                     rs[r][c] # Zero /\ \A d \in 1..(c - 1) : rs[r][d] = Zero

Returned(name) == pc = "returned" /\ call = name

\* entry r (1-based) of the sum of scalars[c] * m[c] over columns c..Len(m)
RECURSIVE ColumnSum(_, _, _, _)
ColumnSum(scalars, m, r, c) ==
    IF c > Len(m) THEN Zero
    ELSE KAdd(KMul(scalars[c], m[c][r]), ColumnSum(scalars, m, r, c + 1))

\* the linear combination of the vectors of m weighted by scalars
Combination(scalars, m) == [r \in 1..rows(m) |-> ColumnSum(scalars, m, r, 1)]

\* min(rows, cols)
MinDim(m) == IF rows(m) < cols(m) THEN rows(m) ELSE cols(m)

\* every entry of rows row.. (0-based) of m, in every column, is zero
AllZeroFrom(m, row) ==
    \A c \in 1..cols(m) : \A r \in (row + 1)..rows(m) : m[c][r] = Zero

----------------------------------------------------------------------------
(* Properties *)

\* C1: the matrix row_echelon returns, for a matrix of any shape, passes
\* is_row_echelon_form.
C1_RowEchelonIsRowEchelonForm ==
    (Returned("row_echelon") \/ Returned("functions_row_echelon")) =>
        is_row_echelon_form(ret.value)

\* C1 witness: a non-square matrix that was not in row echelon form has been reduced.
C1_Witness ==
    /\ Returned("row_echelon")
    /\ rows(self) # cols(self)
    /\ ~is_row_echelon_form(self)
    /\ is_row_echelon_form(ret.value)

\* C2: in the matrix row_echelon / row_echelon_with_details return, every pivot
\* (first non-zero entry of a non-zero row) is one, every entry below a pivot is
\* zero, pivot columns strictly increase downward and zero rows lie below the
\* non-zero rows.
C2_EchelonShape ==
    (Returned("row_echelon") \/ Returned("row_echelon_with_details")) =>
        LET rs == as_rows(ret.value) IN
        /\ \A r \in NonZeroRows(rs) : rs[r][PivotOf(rs, r)] = One
        /\ \A r \in NonZeroRows(rs) : \A q \in (r + 1)..Len(rs) :
               rs[q][PivotOf(rs, r)] = Zero
        /\ \A r \in NonZeroRows(rs) : \A q \in NonZeroRows(rs) :
               r < q => PivotOf(rs, r) < PivotOf(rs, q)
        /\ \A r \in 1..Len(rs) : \A q \in NonZeroRows(rs) :
               IsZeroRow(rs[r]) => q < r

\* C2 witness: a reduction that returned at least two pivots above a zero row,
\* after swapping and eliminating.
C2_Witness ==
    /\ Returned("row_echelon_with_details")
    /\ Len(details.tracked_pivots) >= 2
    /\ rows(self) > Len(details.tracked_pivots)
    /\ \E i \in 1..Len(details.operations) : details.operations[i].kind = "Swap"
    /\ \E i \in 1..Len(details.operations) : details.operations[i].kind = "RowAddition"

\* C3: the matrix row_echelon returns has zero in every entry above each pivot
\* (full reduced row echelon form).
C3_ZeroAbovePivots ==
    Returned("row_echelon") =>
        LET rs == as_rows(ret.value) IN
        \A r \in NonZeroRows(rs) : \A q \in 1..(r - 1) : rs[q][PivotOf(rs, r)] = Zero

\* C4: replaying the recorded operations, in order, onto the original matrix
\* yields the reduced matrix row_echelon_with_details returned.
C4_ReplayReproducesResult ==
    Returned("row_echelon_with_details") =>
        apply_multiple(self, details.operations) = ret.value

\* C4 witness: a returned log holding a Swap, a Division and a RowAddition.
C4_Witness ==
    /\ Returned("row_echelon_with_details")
    /\ ret.value # self
    /\ \E i \in 1..Len(details.operations) : details.operations[i].kind = "Swap"
    /\ \E i \in 1..Len(details.operations) : details.operations[i].kind = "Division"
    /\ \E i \in 1..Len(details.operations) : details.operations[i].kind = "RowAddition"

NonSingular(m) == is_square(m) /\ rows(m) >= 1 /\ CofactorDet(m) # Zero

\* C5: for a non-singular square matrix of size 2..4, determinant returns the
\* product of the tracked pivots negated iff the log holds an odd number of
\* Swaps, and that value is the cofactor-expansion determinant.
C5_DeterminantIsSignedPivotProduct ==
    (Returned("determinant") /\ cols(self) \in 2..4 /\ NonSingular(self)) =>
        /\ ret.kind = "scalar"
        /\ ret.value = PivotRule(self)
        /\ ret.value = CofactorDet(self)

\* C5 witness: determinant returned for a non-singular 4 x 4 matrix whose
\* reduction swapped rows an odd number of times.
C5_Witness ==
    /\ Returned("determinant")
    /\ cols(self) = 4
    /\ NonSingular(self)
    /\ swap_count(row_echelon_with_details(self).details.operations) % 2 = 1
    /\ ret.value = PivotRule(self)

\* C6 (as stated): for a square matrix larger than 4 x 4 determinant returns
\* the value row reduction gives instead of failing.
C6_DeterminantOfAnySize ==
    (call = "determinant" /\ is_square(self) /\ cols(self) > 4) =>
        /\ pc = "returned"
        /\ ret = determinant_for_dimension_4_and_more(self)

\* C6 (amended): determinant returns a value for a square matrix of size at
\* most 4 and fails its assertion cols() <= 4 for every larger square matrix.
C6_DeterminantUpTo4 ==
    (call = "determinant" /\ is_square(self)) =>
        IF cols(self) > 4
        THEN pc = "panicked" /\ ret.kind = "panic"
        ELSE pc = "returned" /\ ret.kind = "scalar"

\* C6 witness: determinant was called on a 5 x 5 matrix and failed.
C6_Witness ==
    /\ call = "determinant"
    /\ rows(self) = 5 /\ cols(self) = 5
    /\ pc = "panicked"

\* C7 (as stated): for every square matrix determinant accepts,
\* determinant == 0 iff rank < size.
C7_ZeroDeterminantIffRankDeficient ==
    Returned("determinant") => (ret.value = Zero <=> rank(self) < cols(self))

\* C7 (amended): for every square matrix of size 1..4,
\* determinant == 0 iff rank < size.
C7_ZeroDeterminantIffRankDeficientNonEmpty ==
    (Returned("determinant") /\ cols(self) >= 1) =>
        (ret.value = Zero <=> rank(self) < cols(self))

\* C7 witness: determinant returned zero for a 4 x 4 matrix of rank 2 or 3.
C7_Witness ==
    /\ Returned("determinant")
    /\ cols(self) = 4
    /\ ret.value = Zero
    /\ rank(self) \in {2, 3}

\* C8: swapping two distinct rows of a square matrix negates its determinant.
C8_RowSwapNegatesDeterminant ==
    Returned("determinant") =>
        \A i \in 0..(rows(self) - 1) : \A j \in 0..(rows(self) - 1) :
            i # j => determinant(swap(self, i, j).matrix) = Scalar(KNeg(ret.value))

\* C8 witness: determinant returned a non-zero value for a 4 x 4 matrix.
C8_Witness ==
    /\ Returned("determinant")
    /\ cols(self) = 4
    /\ ret.value # Zero
    /\ determinant(swap(self, 0, 3).matrix) = Scalar(KNeg(ret.value))

\* C9: inverse of a square matrix returns Err(SingularMatrix) iff forward
\* elimination tracked fewer pivots than there are rows, which is iff the
\* matrix is singular; for every full-rank matrix it returns Ok.
C9_SingularIffFewerPivots ==
    (call = "inverse" /\ is_square(self)) =>
        /\ pc = "returned"
        /\ ret.kind \in {"Ok", "Err"}
        /\ ret.kind = "Err" <=>
             Len(row_echelon_with_details(self).details.tracked_pivots) < rows(self)
        /\ rows(self) >= 1 => (ret.kind = "Ok" <=> CofactorDet(self) # Zero)

\* C9 witness: inverse returned SingularMatrix for a 3 x 3 matrix of rank 2.
C9_Witness ==
    /\ Returned("inverse")
    /\ rows(self) = 3 /\ cols(self) = 3
    /\ ret = SingularMatrix
    /\ rank(self) = 2

\* C10: the matrix B inverse returns for an invertible A satisfies
\* A * B == Identity and B * A == Identity.
C10_InverseTimesMatrixIsIdentity ==
    (Returned("inverse") /\ ret.kind = "Ok") =>
        \A debug_assertions \in BOOLEAN :
            /\ mul_matrix_matrix(self, ret.value, debug_assertions) =
                 [panic |-> FALSE, value |-> identity(cols(self))]
            /\ mul_matrix_matrix(ret.value, self, debug_assertions) =
                 [panic |-> FALSE, value |-> identity(cols(self))]

\* C10 witness: inverse returned Ok for a 3 x 3 or larger matrix that is not
\* its own inverse.
C10_Witness ==
    /\ Returned("inverse")
    /\ ret.kind = "Ok"
    /\ cols(self) >= 3
    /\ ret.value # self
    /\ mul_matrix_matrix(self, ret.value, TRUE).value = identity(cols(self))

\* C11: for every square invertible matrix A, inverse applied to the matrix
\* inverse(A) returned succeeds and returns A.
C11_InverseOfInverseIsOriginal ==
    (Returned("inverse") /\ ret.kind = "Ok") => inverse(ret.value) = Ok(self)

\* C11 witness: inverse returned, for a 3 x 3 or larger matrix, a matrix with a
\* non-integer entry whose own inverse is the original.
C11_Witness ==
    /\ Returned("inverse")
    /\ ret.kind = "Ok"
    /\ cols(self) >= 3
    /\ \E c \in 1..cols(self) : \E r \in 1..rows(self) : ret.value[c][r][2] # 1
    /\ inverse(ret.value) = Ok(self)

\* C12: row_echelon is idempotent: reducing the matrix row_echelon returned
\* returns the same matrix.
C12_RowEchelonIdempotent ==
    /\ Returned("row_echelon") => row_echelon(ret.value) = ret.value
    /\ Returned("functions_row_echelon") => functions_row_echelon(ret.value) = ret.value

\* C12 witness: row_echelon changed a matrix of rank 2 or more through a swap,
\* and reducing its result again changes nothing.
C12_Witness ==
    /\ Returned("row_echelon")
    /\ ret.value # self
    /\ rank(self) >= 2
    /\ swap_count(row_echelon_with_details(self).details.operations) >= 1
    /\ row_echelon(ret.value) = ret.value

\* C13: for a matrix of any shape, rank is the number of pivots
\* row_echelon_with_details tracked, and the rank of row_echelon(A) is the
\* rank of A.
C13_RankPreservedByRowEchelon ==
    Returned("rank") =>
        /\ ret.value = Len(row_echelon_with_details(self).details.tracked_pivots)
        /\ rank(row_echelon(self)) = ret.value

\* C13 witness: rank returned 2 for a non-square matrix that row_echelon
\* changes, with more rows and columns than pivots.
C13_Witness ==
    /\ Returned("rank")
    /\ ret.value = 2
    /\ rows(self) > 2 /\ cols(self) > 2 /\ rows(self) # cols(self)
    /\ row_echelon(self) # self
    /\ rank(row_echelon(self)) = 2

\* C14: no operation modifies the matrix it is called on: in every step of
\* row_echelon, row_echelon_with_details, determinant and rank the receiver
\* keeps its value, the reduction working on its own clone.
C14_ReceiverNeverModified == [][self' = self]_vars

\* C14 witness: row_echelon_with_details returned a working clone that differs
\* from the receiver it was cloned from.
C14_Witness ==
    /\ Returned("row_echelon_with_details")
    /\ ret.value = matrix
    /\ matrix # self
    /\ Len(details.tracked_pivots) >= 2

\* C15: at every pivot step the row next_pivot selects holds, among rows
\* row_index..last of the pivot column, the entry of largest absolute value.
C15_PivotHasLargestMagnitude ==
    (pc = "reducing" /\ row_index < MinDim(matrix)) =>
        LET np == next_pivot(matrix, row_index) IN
        np # None =>
            \A r \in row_index..(rows(matrix) - 1) :
                ~KGt(KAbs(At(matrix, np[1], r)), KAbs(At(matrix, np[1], np[2])))

\* C16 (safety part): the reduction of a matrix of any shape fails no assertion,
\* has fixed row_index <= min(rows, cols) pivots, and leaves its loop exactly
\* when min(rows, cols) pivots are fixed or no non-zero entry remains in any
\* column at or below the cursor.
C16_BoundedAndStopsExactly ==
    /\ call = "row_echelon_with_details" =>
          /\ pc \in {"reducing", "returned"}
          /\ row_index <= MinDim(self)
          /\ Len(details.tracked_pivots) = row_index
          /\ pc = "reducing" =>
                /\ LoopBody(LoopState, TRUE).status # "panic"
                /\ LoopBody(LoopState, TRUE).status = "done" <=>
                      (row_index = MinDim(self) \/ AllZeroFrom(matrix, row_index))
          /\ pc = "returned" =>
                (row_index = MinDim(self) \/ AllZeroFrom(ret.value, row_index))
    /\ call \in {"row_echelon", "functions_row_echelon"} => pc = "returned"

\* C16: for a matrix of any shape the reduction terminates, without assertion
\* failure, after at most min(rows, cols) pivot steps, stopping exactly when
\* that many pivots are fixed or nothing non-zero remains at or below the
\* cursor: a reduction in progress can always take a step, and every step of
\* it either returns or fixes one more pivot, of at most min(rows, cols).
C16_ReductionTerminates ==
    /\ []C16_BoundedAndStopsExactly
    /\ [][pc = "reducing" =>
            \/ pc' = "returned"
            \/ /\ pc' = "reducing"
               /\ row_index' = row_index + 1
               /\ row_index' <= MinDim(self)]_vars

\* C16 witness: the reduction of a non-square matrix returned before
\* min(rows, cols) pivots were fixed, after at least one pivot step.
C16_Witness ==
    /\ Returned("row_echelon_with_details")
    /\ rows(self) # cols(self)
    /\ row_index >= 1
    /\ row_index < MinDim(self)
    /\ AllZeroFrom(ret.value, row_index)

\* C17: the value the normalization step divides by is never zero: the
\* assertion of scale_pivot_row fails in no reachable state of the reduction,
\* every tracked pivot is non-zero and no Division by zero is logged.
C17_PivotNeverZero ==
    /\ pc = "reducing" => LoopBody(LoopState, TRUE).status # "panic"
    /\ \A i \in 1..Len(details.tracked_pivots) : details.tracked_pivots[i] # Zero
    /\ \A i \in 1..Len(details.operations) :
           details.operations[i].kind = "Division" => details.operations[i].k # Zero
    /\ call \in {"row_echelon", "rank"} =>
           reduced_row_echelon_form(self, call = "rank").status = "done"

\* C17 witness: a reduction skipped an all-zero first column, found its pivot
\* in the next one after a swap and logged the Division by it.
C17_Witness ==
    /\ call = "row_echelon_with_details"
    /\ cols(self) >= 2 /\ rows(self) >= 2
    /\ \A r \in 1..rows(self) : self[1][r] = Zero
    /\ self[2][1] = Zero
    /\ Len(details.tracked_pivots) >= 1
    /\ \E i \in 1..Len(details.operations) : details.operations[i].kind = "Division"

\* C18: determinant and inverse called on a non-square matrix fail their
\* assertion is_square and return nothing, neither a number nor SingularMatrix.
C18_NonSquareAborts ==
    (call \in {"determinant", "inverse"} /\ ~is_square(self)) =>
        /\ pc = "panicked"
        /\ ret.kind = "panic"

\* C18 witness: inverse was called on a non-square matrix with more rows than
\* pivots and failed.
C18_Witness ==
    /\ call = "inverse"
    /\ rows(self) >= 1 /\ cols(self) >= 1 /\ rows(self) # cols(self)
    /\ rank(self) < rows(self)
    /\ pc = "panicked"

\* every first non-zero entry lies strictly to the right of those of the
\* non-zero rows above it, and no non-zero row lies below an all-zero row
EchelonShape(m) ==
    LET rs == as_rows(m) IN
    /\ \A r \in NonZeroRows(rs) : \A q \in NonZeroRows(rs) :
           r < q => PivotOf(rs, r) < PivotOf(rs, q)
    /\ \A r \in 1..Len(rs) : \A q \in (r + 1)..Len(rs) :
           IsZeroRow(rs[r]) => IsZeroRow(rs[q])

\* C19: is_row_echelon_form returns true exactly when the column of the first
\* non-zero entry strictly increases from each non-zero row to the next and
\* no non-zero row follows an all-zero row; a matrix without rows and an
\* all-zero matrix are valid, and pivots need not be one.
C19_IsRowEchelonFormIffShape ==
    /\ Returned("is_row_echelon_form") => (ret.value <=> EchelonShape(self))
    /\ (Returned("is_row_echelon_form")
          /\ (rows(self) = 0 \/ AllZeroFrom(self, 0))) => ret.value

\* C19 witness: is_row_echelon_form returned true for a matrix of three or
\* more rows with a pivot that is not one and an all-zero last row.
C19_Witness ==
    /\ Returned("is_row_echelon_form")
    /\ ret.value
    /\ rows(self) >= 3
    /\ \E r \in NonZeroRows(as_rows(self)) :
           as_rows(self)[r][PivotOf(as_rows(self), r)] # One
    /\ IsZeroRow(as_rows(self)[rows(self)])

\* C20: tracking does not change the result: the matrix row_echelon returns is
\* the matrix row_echelon_with_details returns for the same receiver.
C20_TrackingDoesNotChangeResult ==
    /\ Returned("row_echelon") => ret.value = row_echelon_with_details(self).matrix
    /\ Returned("row_echelon_with_details") => ret.value = row_echelon(self)

\* C20 witness: row_echelon_with_details returned, with a log holding a Swap,
\* the matrix row_echelon returns.
C20_Witness ==
    /\ Returned("row_echelon_with_details")
    /\ ret.value # self
    /\ swap_count(details.operations) >= 1
    /\ Len(details.tracked_pivots) >= 2
    /\ ret.value = row_echelon(self)

\* C21: every matrix a public construction path (Matrix::new, From as used by
\* matrix!) returns has all its columns of the same length, and the
\* construction from vectors of different dimensions is rejected.
C21_ColumnsHaveSameLength ==
    /\ (call \in {"new", "from"} /\ pc = "returned") =>
          \A c \in 1..Len(ret.value) : Len(ret.value[c]) = Len(ret.value[1])
    /\ (call \in {"new", "from"}
          /\ \E c \in 1..Len(arg) : Len(arg[c]) # Len(arg[1])) => pc = "panicked"

\* C22: vector * matrix, in both its forms, returns the linear combination of
\* the matrix's vectors, as long as those, whenever the vector has as many
\* entries as the matrix has vectors, and fails otherwise; matrix * matrix
\* succeeds whenever every vector of the left operand has that length.
C22_VectorTimesMatrix ==
    /\ call \in {"vector_mul_matrix", "vector_mul_matrix_ref"} =>
          IF Len(arg[1]) = Len(self)
          THEN /\ pc = "returned"
               /\ ret.value = Combination(arg[1], self)
               /\ Len(ret.value) = rows(self)
          ELSE pc = "panicked"
    /\ (call = "mul_matrix_matrix" /\ rows(arg[1]) = Len(self)) => pc = "returned"

\* the number of Division records among the first i records of the log
DivisionsUpTo(ops, i) == Cardinality({j \in 1..i : ops[j].kind = "Division"})

\* C23: the log is ordered by pivot step: for the k-th pivot it holds at most
\* one Swap(r, k) with r > k, immediately followed by the one Division(k, p)
\* with p the k-th tracked pivot, then RowAddition(t, k, f) records with
\* strictly increasing t > k; there are as many Divisions as tracked pivots.
C23_LogOrderedByPivotStep ==
    call = "row_echelon_with_details" =>
        LET ops == details.operations
            pivots == details.tracked_pivots
        IN
        /\ DivisionsUpTo(ops, Len(ops)) = Len(pivots)
        /\ \A i \in 1..Len(ops) :
              LET k == DivisionsUpTo(ops, i - 1) IN
              CASE ops[i].kind = "Swap" ->
                     /\ ops[i].b = k
                     /\ ops[i].a > k
                     /\ i < Len(ops)
                     /\ ops[i + 1].kind = "Division"
                [] ops[i].kind = "Division" ->
                     /\ ops[i].a = k
                     /\ ops[i].k = pivots[k + 1]
                [] ops[i].kind = "RowAddition" ->
                     /\ k >= 1
                     /\ ops[i].b = k - 1
                     /\ ops[i].a > k - 1
                     /\ ops[i - 1].kind \in {"Division", "RowAddition"}
                     /\ ops[i - 1].kind = "RowAddition" => ops[i - 1].a < ops[i].a
                [] OTHER -> FALSE

\* C23 witness: a returned log of two or more pivot steps holding a Swap and two
\* consecutive RowAdditions.
C23_Witness ==
    /\ Returned("row_echelon_with_details")
    /\ Len(details.tracked_pivots) >= 2
    /\ \E i \in 1..Len(details.operations) : details.operations[i].kind = "Swap"
    /\ \E i \in 2..Len(details.operations) :
           /\ details.operations[i].kind = "RowAddition"
           /\ details.operations[i - 1].kind = "RowAddition"

\* the last row of m is entirely zero (FALSE for a matrix without rows)
BottomRowZero(m) == rows(m) >= 1 /\ IsZeroRow(as_rows(m)[rows(m)])

\* C24: for a square n x n matrix the bottom row of the forward-reduced matrix
\* is entirely zero iff fewer than n pivots were tracked, so the zero-bottom-row
\* test of determinant and the pivot-count test of inverse call the same
\* matrices singular.
C24_ZeroBottomRowIffFewerPivots ==
    /\ (Returned("row_echelon_with_details") /\ is_square(self)) =>
          (BottomRowZero(ret.value) <=> Len(details.tracked_pivots) < rows(self))
    /\ (call \in {"determinant", "inverse"} /\ is_square(self)) =>
          LET red == row_echelon_with_details(self) IN
          /\ BottomRowZero(red.matrix) <=> Len(red.details.tracked_pivots) # rows(red.matrix)
          /\ BottomRowZero(red.matrix) <=> inverse(self) = SingularMatrix
          /\ cols(self) = 4 =>
                (BottomRowZero(red.matrix)
                    <=> (determinant_for_dimension_4_and_more(self) = Scalar(Zero)))

\* C24 witness: the reduction of a 3 x 3 or larger square matrix tracked some
\* but not all pivots and returned a matrix with an all-zero bottom row.
C24_Witness ==
    /\ Returned("row_echelon_with_details")
    /\ is_square(self)
    /\ rows(self) >= 3
    /\ Len(details.tracked_pivots) \in 1..(rows(self) - 1)
    /\ ~BottomRowZero(self)
    /\ BottomRowZero(ret.value)

\* the forward-elimination log of m followed by the back-substitution log of
\* its reduced matrix
InverseLog(m) ==
    row_echelon_with_details(m).details.operations
        \o back_substitution(row_echelon_with_details(m).matrix).operations

\* C25: for a square invertible matrix A, the forward-elimination log followed
\* by the back-substitution log (RowAdditions onto the rows above each diagonal
\* pivot, columns left to right and rows top to bottom) replayed onto A gives
\* the identity, and replayed onto the identity gives what inverse returns.
C25_ReplayReducesToIdentity ==
    (Returned("inverse") /\ ret.kind = "Ok") =>
        LET back == back_substitution(row_echelon_with_details(self).matrix).operations IN
        /\ apply_multiple(self, InverseLog(self)) = identity(cols(self))
        /\ apply_multiple(identity(cols(self)), InverseLog(self)) = ret.value
        /\ \A i \in 1..Len(back) :
              /\ back[i].kind = "RowAddition"
              /\ back[i].a < back[i].b
              /\ back[i].b \in 1..(cols(self) - 1)
        /\ \A i \in 2..Len(back) :
              \/ back[i - 1].b < back[i].b
              \/ back[i - 1].b = back[i].b /\ back[i - 1].a < back[i].a

\* C25 witness: inverse returned Ok for a 3 x 3 or larger matrix whose
\* back-substitution log holds RowAdditions for two different columns.
C25_Witness ==
    /\ Returned("inverse")
    /\ ret.kind = "Ok"
    /\ cols(self) >= 3
    /\ LET back == back_substitution(row_echelon_with_details(self).matrix).operations IN
       \E i \in 1..Len(back) : \E j \in 1..Len(back) : back[i].b # back[j].b
    /\ apply_multiple(self, InverseLog(self)) = identity(cols(self))

\* row r (0-based) of m, a sequence over the columns
RowOf(m, r) == [c \in 1..cols(m) |-> m[c][r + 1]]

\* m and n have the same shape and the same rows except those of rs (0-based)
SameExceptRows(m, n, rs) ==
    /\ cols(m) = cols(n)
    /\ rows(m) = rows(n)
    /\ \A r \in 0..(rows(m) - 1) : r \notin rs => RowOf(m, r) = RowOf(n, r)

\* C26: each row primitive changes only its target rows and returns the record
\* of what it did: swap exchanges the two rows in every column; multiply and
\* divide scale row r only; row_add sets row t to row t + k * row s and leaves
\* every other row, s included when s # t, as it was; apply of the returned
\* record has the effect of the primitive.
C26_PrimitivesChangeOnlyTargetRows ==
    /\ call \in {"swap", "multiply", "divide", "row_add"} =>
          /\ pc = "returned"
          /\ apply(self, ret.value.op) = ret.value.matrix
    /\ call = "swap" =>
          /\ SameExceptRows(self, ret.value.matrix, {arg[1], arg[2]})
          /\ RowOf(ret.value.matrix, arg[1]) = RowOf(self, arg[2])
          /\ RowOf(ret.value.matrix, arg[2]) = RowOf(self, arg[1])
          /\ ret.value.op = OpSwap(arg[1], arg[2])
    /\ call = "multiply" =>
          /\ SameExceptRows(self, ret.value.matrix, {arg[1]})
          /\ \A c \in 1..cols(self) :
                ret.value.matrix[c][arg[1] + 1] = KMul(self[c][arg[1] + 1], arg[2])
          /\ ret.value.op = OpMultipication(arg[1], arg[2])
    /\ call = "divide" =>
          /\ SameExceptRows(self, ret.value.matrix, {arg[1]})
          /\ \A c \in 1..cols(self) :
                KMul(ret.value.matrix[c][arg[1] + 1], arg[2]) = self[c][arg[1] + 1]
          /\ ret.value.op = OpDivision(arg[1], arg[2])
    /\ call = "row_add" =>
          /\ SameExceptRows(self, ret.value.matrix, {arg[1]})
          /\ \A c \in 1..cols(self) :
                ret.value.matrix[c][arg[1] + 1] =
                    KAdd(self[c][arg[1] + 1], KMul(arg[3], self[c][arg[2] + 1]))
          /\ ret.value.op = OpRowAddition(arg[1], arg[2], arg[3])

\* C26 witness: row_add added a multiple of another row to a row of a matrix
\* of three or more rows and changed it.
C26_Witness ==
    /\ Returned("row_add")
    /\ rows(self) >= 3
    /\ arg[1] # arg[2]
    /\ arg[3] # Zero
    /\ RowOf(ret.value.matrix, arg[1]) # RowOf(self, arg[1])
    /\ RowOf(ret.value.matrix, arg[2]) = RowOf(self, arg[2])

\* C27: the two definitions of rank agree for every matrix: the number of
\* tracked pivots (rank.rs) is the index of the first all-zero row of
\* row_echelon(A), or the number of rows when no row is all-zero
\* (row_echelon.rs).
C27_RankDefinitionsAgree ==
    /\ Returned("rank") => ret.value = row_echelon_rank(self)
    /\ Returned("row_echelon_rank") => ret.value = rank(self)

\* C27 witness: both ranks are 2 for a matrix of three or more rows that is
\* not reduced, and both are the row count for a wide matrix.
C27_Witness ==
    /\ Returned("row_echelon_rank")
    /\ \/ /\ rows(self) >= 3
          /\ ret.value = 2
          /\ row_echelon(self) # self
       \/ /\ rows(self) >= 2
          /\ cols(self) > rows(self)
          /\ ret.value = rows(self)
    /\ ret.value = rank(self)

\* C28: inverse leaves its receiver unchanged whether it returns Ok or
\* Err(SingularMatrix), and back_substitution leaves its receiver unchanged
\* and returns only the operations, those of its loop run on a clone.
C28_InverseAndBackSubstitutionKeepReceiver ==
    [][(pc = "idle" /\ call' \in {"inverse", "back_substitution"})
       => /\ self' = self
          /\ (call' = "inverse" /\ pc' = "returned")
                => ret'.kind \in {"Ok", "Err"}
          /\ (call' = "back_substitution" /\ pc' = "returned")
                => /\ ret'.kind = "operations"
                   /\ ret'.value = BackSubstitutionFrame(self).operations]_vars

\* C28 witness: back_substitution has returned operations that change its
\* clone, and inverse of the same receiver returns Ok.
C28_Witness ==
    /\ Returned("back_substitution")
    /\ Len(ret.value) >= 1
    /\ BackSubstitutionFrame(self).matrix # self
    /\ BackSubstitutionFrame(self).self = self
    /\ inverse(self).kind = "Ok"
    /\ InverseFrame(self).matrix # self

\* the rows at or below row k holding a non-zero entry in column c (0-based)
Candidates(m, c, k) == {r \in k..(rows(m) - 1) : At(m, c, r) # Zero}

\* the first column with a candidate at or below row k
CandidateColumn(m, k) ==
    CHOOSE c \in 0..(cols(m) - 1) :
        /\ Candidates(m, c, k) # {}
        /\ \A d \in 0..(c - 1) : Candidates(m, d, k) = {}

\* the lowest row among the candidates of column c holding the greatest entry
LowestGreatest(m, c, k) ==
    CHOOSE r \in Candidates(m, c, k) :
        /\ \A t \in Candidates(m, c, k) : ~KGt(At(m, c, t), At(m, c, r))
        /\ \A t \in Candidates(m, c, k) : t < r => KGt(At(m, c, r), At(m, c, t))

\* ones on the diagonal positions (k, k) and zeros below them
UnitUpperTriangular(m) ==
    /\ rows(m) >= 1
    /\ \A c \in 0..(cols(m) - 1) : \A r \in 0..(rows(m) - 1) :
          /\ r = c => At(m, c, r) = One
          /\ r > c => At(m, c, r) = Zero

SwapsOf(ops) == {i \in 1..Len(ops) : ops[i].kind = "Swap"}

\* C29: among the candidates of the pivot column the selected row is the
\* lowest one holding the greatest entry; a pivot step records a Swap exactly
\* when that row is not the pivot-row cursor, and then between these two
\* different rows; so reducing an identity or a unit upper-triangular echelon
\* matrix records no Swap.
C29_TiesToLowestRowAndSwapOnlyDistinctRows ==
    /\ [](call = "row_echelon_with_details" =>
            /\ \A i \in SwapsOf(details.operations) :
                   details.operations[i].a # details.operations[i].b
            /\ UnitUpperTriangular(self) => SwapsOf(details.operations) = {})
    /\ [][(pc = "reducing" /\ pc' = "reducing") =>
            LET c == CandidateColumn(matrix, row_index)
                selected == LowestGreatest(matrix, c, row_index)
                first == details'.operations[Len(details.operations) + 1]
            IN  /\ details'.tracked_pivots[row_index + 1] = At(matrix, c, selected)
                /\ first.kind = "Swap" <=> selected # row_index
                /\ first.kind = "Swap" =>
                      /\ first.a = selected
                      /\ first.b = row_index]_vars

\* C29 witness: a returned reduction whose first column held its greatest
\* entry twice, in row 0 and below it, without any Swap recorded, and a unit
\* upper-triangular receiver with a non-zero entry above the diagonal.
C29_Witness ==
    /\ Returned("row_echelon_with_details")
    /\ rows(self) >= 2
    /\ cols(self) >= 2
    /\ SwapsOf(details.operations) = {}
    /\ \/ /\ At(self, 0, 0) = At(self, 0, 1)
          /\ At(self, 0, 0) # Zero
          /\ Len(details.tracked_pivots) = 2
       \/ /\ UnitUpperTriangular(self)
          /\ At(self, 1, 0) # Zero

\* one on every diagonal entry of m and zero below the diagonal
OneOnDiagonalZeroBelow(m) ==
    \A c \in 0..(cols(m) - 1) : \A r \in 0..(rows(m) - 1) :
        /\ r = c => At(m, c, r) = One
        /\ r > c => At(m, c, r) = Zero

\* C30: when n pivots are tracked on an n x n matrix, the forward-reduced
\* matrix has one on every diagonal entry and zero below the diagonal, the
\* first non-zero entry of row i is the one at (i, i), the assertion
\* is_row_echelon_form of back_substitution holds on it, and inverse returns
\* Ok without failing an assertion.
C30_FullRankReductionIsUnitUpperTriangular ==
    /\ (/\ Returned("row_echelon_with_details")
        /\ is_square(self)
        /\ Len(details.tracked_pivots) = rows(self))
       => /\ OneOnDiagonalZeroBelow(ret.value)
          /\ \A i \in 1..rows(ret.value) : PivotOf(as_rows(ret.value), i) = i
          /\ is_row_echelon_form(ret.value)
          /\ ~back_substitution(ret.value).panic
    /\ (/\ call = "inverse"
        /\ pc \in {"returned", "panicked"}
        /\ is_square(self)
        /\ Len(row_echelon_with_details(self).details.tracked_pivots) = rows(self))
       => ret.kind = "Ok"

\* C30 witness: inverse returned Ok for a matrix of two or more rows whose
\* reduction swapped rows and left a non-zero entry above the diagonal.
C30_Witness ==
    /\ Returned("inverse")
    /\ ret.kind = "Ok"
    /\ rows(self) >= 2
    /\ LET red == row_echelon_with_details(self) IN
       /\ SwapsOf(red.details.operations) # {}
       /\ red.matrix # identity(rows(self))
       /\ OneOnDiagonalZeroBelow(red.matrix)

====
